---- MODULE Spec2Model ----
(***************************************************************************)
(* Model of the openfang-clawrtc miner: Miner::new, Miner::attest,         *)
(* Miner::enroll, Miner::mine_loop and interruptible_sleep (miner.rs), the *)
(* node client calls they make (client.rs) and the one-shot tool_attest    *)
(* (tools.rs).  Time is counted in whole seconds of the monotonic clock.   *)
(***************************************************************************)
EXTENDS Integers, Sequences, FiniteSets, TLC

\* ------------------------------------------------------------------ bounds
MaxCycles == 2        \* loop cycles explored, over all calls of mine_loop
MaxRuns == 2          \* one-shot calls (Miner::attest, tool_attest) explored
EdgeTicks == 2        \* a sleep is explored tick by tick for its first and
                      \* last EdgeTicks seconds; the flag is not set between

\* ------------------------------------------------------- program constants
ATTEST_VALIDITY == 86400   \* miner.rs:102
BLOCK_TIME == 600          \* client.rs:11
RETRY_DELAY == 60          \* miner.rs:161, miner.rs:183
POLL_INTERVAL == 1         \* miner.rs:211
HTTP_TIMEOUT == 30         \* client.rs:80

\* a node request returns at once or as the client's timeout runs out
NetDelays == {0, HTTP_TIMEOUT}
Max(a, b) == IF a >= b THEN a ELSE b
\* moments at which the caller calls mine_loop (again): at once when the
\* attestation has expired, else one second before it expires or as it does
CallTimes(t, vu) == {Max(t, vu - 1), Max(t, vu)}

VARIABLES
  now,                      \* Instant::now(), in seconds
  attestation_valid_until,  \* Miner.attestation_valid_until
  run_fingerprints,         \* Miner.run_fingerprints
  cancel,                   \* the Arc<AtomicBool> handed to mine_loop
  call,                     \* the entry point that is (or was last) running
  pc,                       \* where the current call is suspended
  cycle,                    \* mine_loop's cycle counter
  total,                    \* cycles started so far on this Miner
  runs,                     \* one-shot calls made so far
  nonce,                    \* attest: challenge.nonce
  entropy,                  \* attest: entropy
  commitment,               \* attest: commitment
  fingerprint_payload,      \* attest: fingerprint_payload (Option as a set)
  payload,                  \* attest: payload handed to submit_attestation
  start,                    \* interruptible_sleep: start
  duration,                 \* interruptible_sleep: duration
  site,                     \* which interruptible_sleep call is running
  issued,                   \* nonces issued by the node so far
  collected,                \* entropy samples taken so far
  log,                      \* events of the current cycle
  prev,                     \* events of the previous cycle of this call
  used,                     \* <<nonce, entropy sample>> of earlier attempts
  cancelAt,                 \* time and place at which the flag was set,
                            \* with the cycle and the events logged so far
  result,                   \* what the last call returned
  sawCancel,                \* the running call has read the flag as set
  response,                 \* client call: the HTTP exchange it saw
  returned,                 \* client call: the Result handed to the caller
  machine,                  \* what the probes find on the machine they run on
  report,                   \* validate_all_checks: the FingerprintReport
  computed,                 \* commitments computed so far, with their inputs
  blocking,                 \* what runs on the blocking thread pool
  wallet,                   \* an RtcWallet
  wallet_file,              \* the wallet file on disk
  restored,                 \* the Result of restoring a wallet
  keystore,                 \* a Keystore and what it was made from
  decrypted                 \* the Result of Keystore::decrypt

vars == <<now, attestation_valid_until, run_fingerprints, cancel, call, pc,
          cycle, total, runs, nonce, entropy, commitment,
          fingerprint_payload, payload,
          start, duration, site, issued, collected, log, prev, used,
          cancelAt, result, sawCancel,
          response, returned, machine, report, computed, blocking,
          wallet, wallet_file, restored, keystore, decrypted>>

\* state of the functions that are also exercised on their own
cryptoVars == <<wallet, wallet_file, restored, keystore, decrypted>>
pureVars == <<response, returned, machine, report, computed, cryptoVars>>
unitVars == <<pureVars, blocking>>

\* ----------------------------------------------------------------- values
\* A string is a sequence of character codes.
NonceStr(k) == <<78, k>>
Address == <<82, 84, 67>>
NoEntropy == [sample |-> 0, variance_ns |-> 0]
\* collect_entropy: the k-th sample taken by this process
CollectEntropy(k) == [sample |-> k, variance_ns |-> k]
\* serde_json::to_string(&entropy)
ToJson(e) == <<123, e.sample, 58, e.variance_ns, 125>>
\* hex::encode(Sha256::digest(..)), collision free
Sha256Hex(s) == [sha256 |-> s]
NoCommitment == Sha256Hex(<<>>)
\* variant: the time of the computation goes into the hash
CommitmentSalted(n, a, e) == Sha256Hex(n \o a \o ToJson(e) \o <<now>>)

\* format!("{}{}{}", nonce, address, entropy_json) hashed
Commitment(n, a, e) == Sha256Hex(n \o a \o ToJson(e))

NoPayload == [miner |-> <<>>, nonce |-> <<>>,
              report |-> [nonce |-> <<>>, commitment |-> NoCommitment,
                          derived |-> NoEntropy, entropy_score |-> 0],
              fingerprint |-> {}]
\* variant: the fingerprint report is never put into the payload
BuildPayloadNoFingerprint(n, c, e, fp) ==
  [miner |-> Address, nonce |-> n,
   report |-> [nonce |-> n, commitment |-> c, derived |-> e,
               entropy_score |-> e.variance_ns],
   fingerprint |-> {}]

\* variant: the nonce of the first challenge is kept and sent again
BuildPayloadStaleNonce(n, c, e, fp) ==
  [miner |-> Address, nonce |-> NonceStr(1),
   report |-> [nonce |-> NonceStr(1), commitment |-> c, derived |-> e,
               entropy_score |-> e.variance_ns],
   fingerprint |-> fp]

BuildPayload(n, c, e, fp) ==
  [miner |-> Address, nonce |-> n,
   report |-> [nonce |-> n, commitment |-> c, derived |-> e,
               entropy_score |-> e.variance_ns],
   fingerprint |-> fp]

\* one logged event
Ev(e, r, d, k) == [ev |-> e, res |-> r, dur |-> d, n |-> k]
\* the log with the result of its last event filled in
Settle(lg, r, k) ==
  [lg EXCEPT ![Len(lg)] = [@ EXCEPT !.res = r, !.n = k]]

ChallengeResults == {"ok", "transport", "status", "json"}
SubmitResults == {"accepted", "transport", "status", "notok", "json"}
EnrollResults == {"ok", "notok", "status", "transport", "json"}
BalanceResults == {"ok", "status", "transport", "json", "missing"}

NoCancel == [t |-> -1, pc |-> "none", site |-> "none", elapsed |-> 0,
             cycle |-> 0, len |-> 0]

\* ---------------------------------------------- node responses and Results
\* an HTTP exchange as reqwest reports it: transport "ok" means a response
\* with a status line arrived; the body parses or not as the expected struct
NoBody == [parses |-> FALSE, ok |-> FALSE, balance_rtc |-> {}]
NoResponse == [transport |-> "none", status |-> 0, body |-> NoBody]
Statuses == {200, 204, 403, 500}
Bodies ==
  {NoBody} \cup {[parses |-> TRUE, ok |-> o, balance_rtc |-> b] :
                   o \in BOOLEAN, b \in {{}, {7}}}
Responses ==
  {[transport |-> t, status |-> 0, body |-> NoBody] :
     t \in {"error", "timeout"}}
    \cup {[transport |-> "ok", status |-> st, body |-> b] :
            st \in Statuses, b \in Bodies}
\* StatusCode::is_success
IsSuccess(status) == status >= 200 /\ status <= 299

\* ClawRtcResult<T>
NoReturn == [kind |-> "none", value |-> 0]
Ok(v) == [kind |-> "Ok", value |-> v]
Err(e) == [kind |-> e, value |-> 0]

\* variant: a non-success status is reported as for the other endpoints
ClientSubmitStatusAsNodeApi(resp) ==
  IF resp.transport # "ok" THEN Err("Network")
  ELSE IF ~IsSuccess(resp.status) THEN Err("NodeApi")
  ELSE IF ~resp.body.parses THEN Err("Network")
  ELSE IF ~resp.body.ok THEN Err("AttestationRejected")
  ELSE Ok(1)

\* RustChainClient::submit_attestation; a reqwest::Error becomes Network
ClientSubmit(resp) ==
  IF resp.transport # "ok" THEN Err("Network")
  ELSE IF ~IsSuccess(resp.status) THEN Err("AttestationRejected")
  ELSE IF ~resp.body.parses THEN Err("Network")
  ELSE IF ~resp.body.ok THEN Err("AttestationRejected")
  ELSE Ok(1)

\* RustChainClient::balance
ClientBalance(resp) ==
  IF resp.transport # "ok" THEN Err("Network")
  ELSE IF ~IsSuccess(resp.status) THEN Ok(0)
  ELSE IF ~resp.body.parses THEN Err("Network")
  ELSE IF resp.body.balance_rtc = {} THEN Ok(0)
  ELSE Ok(CHOOSE b \in resp.body.balance_rtc : TRUE)

\* ------------------------------------------------------ fingerprint probes
OtherProbes == {"clock_drift", "cache_timing", "simd_identity",
                "thermal_drift", "instruction_jitter"}
Probes == OtherProbes \cup {"anti_emulation"}
\* what anti_emulation::check finds in each of its sources, and the verdict
\* each of the other five probes reaches on this machine
Machines ==
  [verdicts : [OtherProbes -> BOOLEAN],
   dmi : {<<>>, <<"product_name:kvm">>,
          <<"product_name:kvm", "sys_vendor:qemu">>},
   env : {<<>>, <<"ENV:DOCKER">>},
   cpuinfo_hypervisor : BOOLEAN,
   hypervisor_type : {"unreadable", "", "xen"},
   cloud_metadata : BOOLEAN,
   detect_virt : {"unavailable", "", "none", "kvm"}]
NoMachine ==
  [verdicts |-> [p \in OtherProbes |-> FALSE], dmi |-> <<>>, env |-> <<>>,
   cpuinfo_hypervisor |-> FALSE, hypervisor_type |-> "unreadable",
   cloud_metadata |-> FALSE, detect_virt |-> "unavailable"]

\* the CheckResult of one of the five timing and identity probes
ProbeCheck(p, m) == [passed |-> m.verdicts[p], data |-> [probe |-> p]]

\* variant: one indicator alone is tolerated
AntiEmulationCheckLenient(m) ==
  LET vm_indicators ==
        m.dmi \o m.env
        \o (IF m.cpuinfo_hypervisor THEN <<"cpuinfo:hypervisor">> ELSE <<>>)
        \o (IF m.hypervisor_type \notin {"unreadable", ""}
            THEN <<"sys_hypervisor:" \o m.hypervisor_type>> ELSE <<>>)
        \o (IF m.cloud_metadata THEN <<"cloud_metadata:detected">> ELSE <<>>)
        \o (IF m.detect_virt \notin {"unavailable", "", "none"}
            THEN <<"systemd_detect_virt:" \o m.detect_virt>> ELSE <<>>)
  IN [passed |-> Len(vm_indicators) <= 1,
      data |-> [vm_indicators |-> vm_indicators,
                indicator_count |-> Len(vm_indicators),
                is_likely_vm |-> vm_indicators # <<>>]]

\* anti_emulation::check: the indicators are pushed source by source
AntiEmulationCheck(m) ==
  LET vm_indicators ==
        m.dmi \o m.env
        \o (IF m.cpuinfo_hypervisor THEN <<"cpuinfo:hypervisor">> ELSE <<>>)
        \o (IF m.hypervisor_type \notin {"unreadable", ""}
            THEN <<"sys_hypervisor:" \o m.hypervisor_type>> ELSE <<>>)
        \o (IF m.cloud_metadata THEN <<"cloud_metadata:detected">> ELSE <<>>)
        \o (IF m.detect_virt \notin {"unavailable", "", "none"}
            THEN <<"systemd_detect_virt:" \o m.detect_virt>> ELSE <<>>)
  IN [passed |-> vm_indicators = <<>>,
      data |-> [vm_indicators |-> vm_indicators,
                indicator_count |-> Len(vm_indicators),
                is_likely_vm |-> vm_indicators # <<>>]]

NoReport == [all_passed |-> FALSE, checks |-> [p \in {} |-> FALSE]]

\* variant: the last probe is left out of the conjunction
ValidateAllChecksFive(m) ==
  LET checks == [p \in Probes |->
                   IF p = "anti_emulation" THEN AntiEmulationCheck(m)
                                            ELSE ProbeCheck(p, m)]
  IN [all_passed |-> /\ checks["clock_drift"].passed
                     /\ checks["cache_timing"].passed
                     /\ checks["simd_identity"].passed
                     /\ checks["thermal_drift"].passed
                     /\ checks["instruction_jitter"].passed,
      checks |-> checks]

\* validate_all_checks: the six probes, then the conjunction
ValidateAllChecks(m) ==
  LET checks == [p \in Probes |->
                   IF p = "anti_emulation" THEN AntiEmulationCheck(m)
                                            ELSE ProbeCheck(p, m)]
  IN [all_passed |-> /\ checks["clock_drift"].passed
                     /\ checks["cache_timing"].passed
                     /\ checks["simd_identity"].passed
                     /\ checks["thermal_drift"].passed
                     /\ checks["instruction_jitter"].passed
                     /\ checks["anti_emulation"].passed,
      checks |-> checks]


\* ------------------------------------------------------------------ wallet
\* A byte is a number in 0..255; a key is a sequence of KEY_BYTES bytes.
KEY_BYTES == 32
Keys == {[i \in 1..KEY_BYTES |-> (i * m + c) % 256] :
           m \in {0, 37}, c \in {0, 200}}

HexDigits == <<48, 49, 50, 51, 52, 53, 54, 55, 56, 57,
               97, 98, 99, 100, 101, 102>>

\* variant: a byte below 16 is written as one digit
RECURSIVE HexEncodeUnpadded(_)
HexEncodeUnpadded(bytes) ==
  IF bytes = <<>>
  THEN <<>>
  ELSE (IF Head(bytes) < 16
        THEN <<HexDigits[Head(bytes) + 1]>>
        ELSE <<HexDigits[(Head(bytes) \div 16) + 1],
               HexDigits[(Head(bytes) % 16) + 1]>>)
       \o HexEncodeUnpadded(Tail(bytes))

\* hex::encode: two lower-case digits for every byte
RECURSIVE HexEncode(_)
HexEncode(bytes) ==
  IF bytes = <<>>
  THEN <<>>
  ELSE <<HexDigits[(Head(bytes) \div 16) + 1],
         HexDigits[(Head(bytes) % 16) + 1]>>
       \o HexEncode(Tail(bytes))

\* the value of a hex digit of either case, -1 for any other character
HexVal(c) ==
  IF c \in 48..57 THEN c - 48
  ELSE IF c \in 97..102 THEN c - 87
  ELSE IF c \in 65..70 THEN c - 55
  ELSE -1

\* hex::decode: an odd length or a character that is no hex digit is an error
HexDecode(str) ==
  IF Len(str) % 2 # 0 \/ \E i \in DOMAIN str : HexVal(str[i]) = -1
  THEN Err("FromHexError")
  ELSE Ok([i \in 1..(Len(str) \div 2) |->
             16 * HexVal(str[2 * i - 1]) + HexVal(str[2 * i])])

\* SigningKey::verifying_key: the public key is a fixed function of the
\* secret key (here a bytewise bijection stands for the curve arithmetic)
VerifyingKey(sk) == [i \in DOMAIN sk |-> (5 * sk[i] + i) % 256]

\* Sha256::digest: a fixed function from byte strings to 32 bytes
Sha256(bytes) ==
  [i \in 1..32 |->
     IF bytes = <<>> THEN i
     ELSE (3 * bytes[((i - 1) % Len(bytes)) + 1] + i + Len(bytes)) % 256]

\* derive_address: "RTC" and the first 40 hex digits of the digest
DeriveAddress(vk) ==
  <<82, 84, 67>> \o SubSeq(HexEncode(Sha256(vk)), 1, 40)

NoWallet == [signing_key |-> <<>>, verifying_key |-> <<>>, address |-> <<>>]

\* the RtcWallet built around the signing key sk
WalletOf(sk) ==
  [signing_key |-> sk,
   verifying_key |-> VerifyingKey(sk),
   address |-> DeriveAddress(VerifyingKey(sk))]

\* RtcWallet::from_private_key_hex
FromPrivateKeyHex(hex_key) ==
  LET bytes == HexDecode(hex_key)
  IN IF bytes.kind # "Ok" THEN Err("Crypto")
     ELSE IF Len(bytes.value) # KEY_BYTES THEN Err("Crypto")
     ELSE Ok(WalletOf(bytes.value))

\* RtcWallet::public_key_hex and RtcWallet::private_key_hex
PublicKeyHex(w) == HexEncode(w.verifying_key)
PrivateKeyHex(w) == HexEncode(w.signing_key)

\* A JSON object is the sequence of its members, <<name, value>>.
NoFile == <<>>

\* the text save_plaintext writes for w at time t
WalletFileJson(w, t) ==
  << <<"address", w.address>>,
     <<"public_key", PublicKeyHex(w)>>,
     <<"private_key", PrivateKeyHex(w)>>,
     <<"created", <<t>> >>,
     <<"curve", <<69, 100>> >>,
     <<"network", <<114, 99>> >> >>

WalletFileFields == {"address", "public_key", "private_key", "created",
                     "curve", "network"}
Members(json) == {json[i][1] : i \in DOMAIN json}
Member(json, name) ==
  json[CHOOSE i \in DOMAIN json : json[i][1] = name][2]

\* RtcWallet::from_file on a path whose content is data: read, parse into a
\* WalletFile (every member is required), restore from its private_key
FromFile(data) ==
  IF data = NoFile THEN Err("Io")
  ELSE IF ~(WalletFileFields \subseteq Members(data)) THEN Err("Crypto")
  ELSE FromPrivateKeyHex(Member(data, "private_key"))

NoRestore == [by |-> "none", input |-> <<>>, out |-> NoReturn]

\* strings handed to from_private_key_hex that are not the key of w: empty,
\* odd length, no hex digit, one byte short, and the key in upper case
Upper(str) == [i \in DOMAIN str |-> IF str[i] >= 97 THEN str[i] - 32
                                                     ELSE str[i]]
OtherHexInputs(w) ==
  {<<>>, <<97>>, <<122, 122>>,
   HexEncode(SubSeq(w.signing_key, 1, KEY_BYTES - 1)),
   Upper(PrivateKeyHex(w))}

\* ---------------------------------------------------------------- keystore
Passwords == {<<>>, <<112>>, <<113>>}
Secrets == {<<>>, <<48, 97>>, <<102, 102, 48, 49>>}
Salts == {1, 2}
GcmNonces == {1, 2}

\* base64 text of a value, and its decoding
B64Encode(x) == [b64 |-> x]
B64Decode(str) ==
  IF DOMAIN str = {"b64"} THEN Ok(str.b64) ELSE Err("KeystoreDecrypt")

\* derive_key: Argon2id of password and salt, collision free
DeriveKey(password, salt) == [argon2id |-> <<password, salt>>]

\* AES-256-GCM: the plaintext masked with the key stream of key and iv,
\* and a tag that only the same key and iv reproduce
Mask(key, iv, bytes) == [masked |-> bytes, with |-> <<key, iv>>]
Unmask(key, iv, body) ==
  IF body.with = <<key, iv>>
  THEN body.masked
  ELSE [i \in DOMAIN body.masked |-> (body.masked[i] + 1) % 256]
Tag(key, iv, body) == [gmac |-> <<key, iv, body>>]

AeadEncrypt(key, iv, plaintext) ==
  [body |-> Mask(key, iv, plaintext),
   tag |-> Tag(key, iv, Mask(key, iv, plaintext))]

\* variant: the tag is not verified
AeadDecryptUnverified(key, iv, ct) == Ok(Unmask(key, iv, ct.body))

\* cipher.decrypt: an error unless the tag verifies
AeadDecrypt(key, iv, ct) ==
  IF ct.tag = Tag(key, iv, ct.body)
  THEN Ok(Unmask(key, iv, ct.body))
  ELSE Err("aead")

\* Keystore::encrypt with the salt and iv the generator returned
KeystoreEncryptWith(private_key_hex, password, address, salt, iv, t) ==
  [version |-> 1,
   address |-> address,
   salt |-> B64Encode(salt),
   nonce |-> B64Encode(iv),
   ciphertext |-> B64Encode(AeadEncrypt(DeriveKey(password, salt), iv,
                                        private_key_hex)),
   created |-> t]

\* String::from_utf8 on the characters the model uses: bytes below 128
IsUtf8(bytes) == \A i \in DOMAIN bytes : bytes[i] < 128

\* Keystore::decrypt
KeystoreDecryptOf(ks, password) ==
  LET salt == B64Decode(ks.salt)
      nonce_bytes == B64Decode(ks.nonce)
      ciphertext == B64Decode(ks.ciphertext)
  IN IF salt.kind # "Ok" \/ nonce_bytes.kind # "Ok" \/ ciphertext.kind # "Ok"
     THEN Err("KeystoreDecrypt")
     ELSE LET plaintext == AeadDecrypt(DeriveKey(password, salt.value),
                                       nonce_bytes.value, ciphertext.value)
          IN IF plaintext.kind # "Ok" THEN Err("KeystoreDecrypt")
             ELSE IF ~IsUtf8(plaintext.value) THEN Err("KeystoreDecrypt")
             ELSE Ok(plaintext.value)

NoKeystore == [secret |-> <<>>, password |-> <<>>, ks |-> <<>>]
NoDecrypt == [password |-> <<>>, out |-> NoReturn]

Init ==
  /\ now = 0
  /\ attestation_valid_until = 0
  /\ run_fingerprints \in BOOLEAN
  /\ cancel = FALSE
  /\ call = "none"
  /\ pc = "idle"
  /\ cycle = 0
  /\ runs = 0
  /\ total = 0
  /\ nonce = <<>>
  /\ entropy = NoEntropy
  /\ commitment = NoCommitment
  /\ fingerprint_payload = {}
  /\ payload = NoPayload
  /\ start = 0
  /\ duration = 0
  /\ site = "none"
  /\ issued = 0
  /\ collected = 0
  /\ log = <<>>
  /\ prev = <<>>
  /\ used = {}
  /\ cancelAt = NoCancel
  /\ result = "none"
  /\ sawCancel = FALSE
  /\ response = NoResponse
  /\ returned = NoReturn
  /\ machine = NoMachine
  /\ report = NoReport
  /\ computed = {}
  /\ blocking = "none"
  /\ wallet = NoWallet
  /\ wallet_file = NoFile
  /\ restored = NoRestore
  /\ keystore = NoKeystore
  /\ decrypted = NoDecrypt

attestLocals == <<nonce, entropy, commitment, fingerprint_payload, payload>>
sleepLocals == <<start, duration, site>>

\* the events of a finished cycle, without the details of each result
Class(e) ==
  CASE e.ev \in {"challenge", "submit", "enroll", "balance"} ->
         IF e.res \in {"ok", "accepted"} THEN "ok" ELSE "fail"
    [] e.ev = "sleep" -> e.res
    [] OTHER -> "done"
Summary(lg) ==
  [i \in DOMAIN lg |->
     Ev(lg[i].ev, Class(lg[i]), lg[i].dur,
        IF lg[i].ev = "sleep" THEN lg[i].n ELSE 0)]

\* ------------------------------------------------------- control transfer
\* variant: f is called in place, on the task that runs the caller
SpawnBlockingInline(f) == blocking' = "none"

\* tokio::task::spawn_blocking(f) followed by .await: f runs on a thread of
\* the blocking pool while the caller is suspended on the JoinHandle
SpawnBlocking(f) == blocking' = f

\* variant: the loop goes round again instead of leaving
BreakStaying(lg) ==
  /\ pc' = "top"
  /\ log' = lg
  /\ UNCHANGED <<result, sawCancel>>

\* `break` out of mine_loop's loop after a poll read the flag as set,
\* followed by the final Ok(())
Break(lg) ==
  /\ pc' = "idle"
  /\ result' = "ok"
  /\ sawCancel' = TRUE
  /\ log' = lg

\* variant: the loop gives up when a retry follows a cycle that had failed
SleepReturnedCapped(cancelled, s, lg) ==
  IF cancelled
  THEN Break(lg)
  ELSE IF s # "epoch" /\ \E i \in DOMAIN prev : prev[i].res = "fail"
       THEN /\ pc' = "idle"
            /\ result' = "err"
            /\ log' = lg
            /\ UNCHANGED sawCancel
       ELSE /\ IF s = "epoch"
               THEN /\ pc' = "balance"
                    /\ log' = Append(lg, Ev("balance", "sent", 0, 0))
               ELSE /\ pc' = "top"
                    /\ log' = lg
            /\ UNCHANGED <<result, sawCancel>>

\* variant: the value interruptible_sleep returned is not looked at
SleepReturnedUnchecked(cancelled, s, lg) ==
  /\ IF s = "epoch"
     THEN /\ pc' = "balance"
          /\ log' = Append(lg, Ev("balance", "sent", 0, 0))
     ELSE /\ pc' = "top"
          /\ log' = lg
  /\ UNCHANGED <<result, sawCancel>>

\* what mine_loop does with the value interruptible_sleep returned
SleepReturned(cancelled, s, lg) ==
  IF cancelled
  THEN Break(lg)
  ELSE /\ IF s = "epoch"
          THEN /\ pc' = "balance"
               /\ log' = Append(lg, Ev("balance", "sent", 0, 0))
          ELSE /\ pc' = "top"
               /\ log' = lg
       /\ UNCHANGED <<result, sawCancel>>

\* one pass through the head of interruptible_sleep's while loop at time t
SleepPoll(t, st, dur, s, lg) ==
  IF ~(t - st < dur)
  THEN /\ SleepReturned(FALSE, s, Settle(lg, "elapsed", t - st))
       /\ start' = 0 /\ duration' = 0 /\ site' = "none"
  ELSE IF cancel
       THEN /\ SleepReturned(TRUE, s, Settle(lg, "cancelled", t - st))
            /\ start' = 0 /\ duration' = 0 /\ site' = "none"
       ELSE /\ pc' = "sleep"
            /\ log' = lg
            /\ start' = st /\ duration' = dur /\ site' = s
            /\ UNCHANGED <<result, sawCancel>>

\* interruptible_sleep(dur, &cancel) called at time t
EnterSleep(t, dur, s, lg) ==
  SleepPoll(t, t, dur, s, Append(lg, Ev("sleep", "sleeping", dur, 0)))

\* iterations of the sleep loop taken in one step while the flag stays unset
Stride(el, dur) ==
  IF el + 1 < EdgeTicks \/ el + 1 >= dur - EdgeTicks
  THEN 1
  ELSE (dur - EdgeTicks) - el

\* variant: the loop ignores the error of a failed attestation
AttestReturnedIgnoringError(ok, t, lg) ==
  IF call = "mine_loop"
  THEN /\ pc' = "enroll"
       /\ log' = Append(lg, Ev("enroll", "sent", 0, 0))
       /\ UNCHANGED <<sleepLocals, result, sawCancel>>
  ELSE /\ pc' = "idle"
       /\ result' = IF ok THEN "ok" ELSE "err"
       /\ log' = lg
       /\ UNCHANGED <<sleepLocals, sawCancel>>

\* Miner::attest returned at time t: mine_loop goes on to the enrollment or
\* logs the error and sleeps; a direct caller gets the result
AttestReturned(ok, t, lg) ==
  IF call = "mine_loop"
  THEN IF ok
       THEN /\ pc' = "enroll"
            /\ log' = Append(lg, Ev("enroll", "sent", 0, 0))
            /\ UNCHANGED <<sleepLocals, result, sawCancel>>
       ELSE EnterSleep(t, RETRY_DELAY, "attest_retry", lg)
  ELSE /\ pc' = "idle"
       /\ result' = IF ok THEN "ok" ELSE "err"
       /\ log' = lg
       /\ UNCHANGED <<sleepLocals, sawCancel>>

\* variant: strict comparison
AttestDueStrict(t, vu) == t > vu

\* Instant::now() >= self.attestation_valid_until
AttestDue(t, vu) == t >= vu

\* variant: the window is added to the previous value
ValidUntilExtendingOld(t, old) == old + ATTEST_VALIDITY

\* Instant::now() + Duration::from_secs(86400)
ValidUntil(t, old) == t + ATTEST_VALIDITY

\* variant: the validity is renewed before the result is looked at
ValidityAfterSubmitAny(r, t, old) == ValidUntil(t, old)

\* variant: a refused or failed submission ends the validity
ValidityAfterSubmitResetOnFailure(r, t, old) ==
  IF r = "accepted" THEN ValidUntil(t, old) ELSE 0

\* attestation_valid_until after submit_attestation returned r at time t:
\* the assignment is only reached past the `?`
ValidityAfterSubmit(r, t, old) ==
  IF r = "accepted" THEN ValidUntil(t, old) ELSE old

\* RustChainClient::enroll: Ok(resp) or Err
ClientEnroll(r) ==
  CASE r = "ok" -> "Ok(ok)"
    [] r = "notok" -> "Ok(notok)"
    [] r = "status" -> "Err(NodeApi)"
    [] OTHER -> "Err(Network)"

\* variant: resp.ok is not looked at
MinerEnrollIgnoringOk(r) ==
  IF ClientEnroll(r) \in {"Ok(ok)", "Ok(notok)"} THEN "Ok(true)"
                                                  ELSE "Ok(false)"

\* variant: a client error is passed on to the caller
MinerEnrollPropagating(r) ==
  CASE ClientEnroll(r) = "Ok(ok)" -> "Ok(true)"
    [] ClientEnroll(r) = "Ok(notok)" -> "Ok(false)"
    [] OTHER -> "Err"

\* Miner::enroll: Ok(true), Ok(false) or Err
MinerEnroll(r) ==
  IF ClientEnroll(r) = "Ok(ok)" THEN "Ok(true)" ELSE "Ok(false)"

\* ---------------------------------------------------------------- actions
LoopPcs == {"top", "challenge", "entropy", "fingerprint", "submit",
            "enroll", "sleep", "balance"}

\* the caller calls mine_loop at time t with a flag whose value is c
CallMineLoop(t, c) ==
  /\ pc = "idle"
  /\ total < MaxCycles
  /\ now' = t
  /\ cancel' = c
  /\ cancelAt' = IF c THEN [t |-> t, pc |-> "idle", site |-> "none",
                            elapsed |-> 0, cycle |-> 0, len |-> 0]
                      ELSE NoCancel
  /\ cycle' = 0
  /\ call' = "mine_loop"
  /\ pc' = "top"
  /\ result' = "running"
  /\ sawCancel' = FALSE
  /\ log' = <<>>
  /\ prev' = <<>>
  /\ UNCHANGED unitVars
  /\ UNCHANGED <<attestation_valid_until, run_fingerprints, total, runs,
                 attestLocals, sleepLocals, issued, collected, used>>

\* variant: the store also drops the loop's future where it is suspended
SetCancelAborting ==
  /\ pc \in LoopPcs
  /\ ~cancel
  /\ cancel' = TRUE
  /\ cancelAt' = [t |-> now, pc |-> pc,
                  site |-> IF pc = "sleep" THEN site ELSE "none",
                  elapsed |-> IF pc = "sleep" THEN now - start ELSE 0,
                  cycle |-> cycle, len |-> Len(log)]
  /\ pc' = "idle"
  /\ result' = "ok"
  /\ sawCancel' = TRUE
  /\ UNCHANGED unitVars
  /\ UNCHANGED <<now, attestation_valid_until, run_fingerprints, call, runs,
                 cycle, total, attestLocals, sleepLocals, issued, collected,
                 log, prev, used>>

\* the signal handler task stores true into the flag
SetCancel ==
  /\ pc \in LoopPcs
  /\ ~cancel
  /\ cancel' = TRUE
  /\ cancelAt' = [t |-> now, pc |-> pc,
                  site |-> IF pc = "sleep" THEN site ELSE "none",
                  elapsed |-> IF pc = "sleep" THEN now - start ELSE 0,
                  cycle |-> cycle, len |-> Len(log)]
  /\ UNCHANGED unitVars
  /\ UNCHANGED <<now, attestation_valid_until, run_fingerprints, call, runs,
                 pc, cycle, total, attestLocals, sleepLocals, issued,
                 collected, log, prev, used, result, sawCancel>>

\* top of the loop: cancel check, cycle += 1, validity check, first request
LoopTop ==
  /\ pc = "top"
  /\ IF cancel
     THEN /\ Break(log)
          /\ UNCHANGED <<cycle, total, prev>>
     ELSE /\ total < MaxCycles
          /\ cycle' = cycle + 1
          /\ total' = total + 1
          /\ prev' = Summary(log)
          /\ IF AttestDue(now, attestation_valid_until)
             THEN /\ pc' = "challenge"
                  /\ log' = <<Ev("challenge", "sent", 0, 0)>>
             ELSE /\ pc' = "enroll"
                  /\ log' = <<Ev("enroll", "sent", 0, 0)>>
          /\ UNCHANGED <<result, sawCancel>>
  /\ UNCHANGED unitVars
  /\ UNCHANGED <<now, attestation_valid_until, run_fingerprints, call, runs,
                 cancel, attestLocals, sleepLocals, issued, collected, used,
                 cancelAt>>

\* variant: the commitment is computed as soon as the nonce is known
ChallengeRespCommitEarly(r, d) ==
  /\ pc = "challenge"
  /\ now' = now + d
  /\ IF r = "ok"
     THEN /\ issued' = issued + 1
          /\ nonce' = NonceStr(issued + 1)
          /\ commitment' = Commitment(nonce', Address, entropy)
          /\ pc' = "entropy"
          /\ SpawnBlocking("collect_entropy")
          /\ log' = Settle(log, "ok", issued + 1)
                      \o <<Ev("commit", "done", 0, 0),
                           Ev("entropy", "running", 0, 0)>>
          /\ UNCHANGED <<sleepLocals, result, sawCancel>>
     ELSE /\ AttestReturned(FALSE, now + d, Settle(log, r, 0))
          /\ UNCHANGED <<blocking, issued, nonce, commitment>>
  /\ UNCHANGED pureVars
  /\ UNCHANGED <<attestation_valid_until, run_fingerprints, call, runs,
                 cancel, cycle, total, entropy, fingerprint_payload, payload,
                 collected, prev, used, cancelAt>>

\* variant: a body that does not parse is taken as a challenge without a
\* nonce and the attempt goes on
ChallengeRespLenient(r, d) ==
  /\ pc = "challenge"
  /\ now' = now + d
  /\ IF r \in {"ok", "json"}
     THEN /\ issued' = IF r = "ok" THEN issued + 1 ELSE issued
          /\ nonce' = IF r = "ok" THEN NonceStr(issued + 1) ELSE <<>>
          /\ pc' = "entropy"
          /\ SpawnBlocking("collect_entropy")
          /\ log' = Append(Settle(log, r, issued'),
                           Ev("entropy", "running", 0, 0))
          /\ UNCHANGED <<sleepLocals, result, sawCancel>>
     ELSE /\ AttestReturned(FALSE, now + d, Settle(log, r, 0))
          /\ UNCHANGED <<blocking, issued, nonce>>
  /\ UNCHANGED pureVars
  /\ UNCHANGED <<attestation_valid_until, run_fingerprints, call, runs,
                 cancel, cycle, total, entropy, commitment,
                 fingerprint_payload, payload, collected, prev, used,
                 cancelAt>>

\* attest: the challenge request returns after d seconds with result r
ChallengeResp(r, d) ==
  /\ pc = "challenge"
  /\ now' = now + d
  /\ IF r = "ok"
     THEN /\ issued' = issued + 1
          /\ nonce' = NonceStr(issued + 1)
          /\ pc' = "entropy"
          /\ SpawnBlocking("collect_entropy")
          /\ log' = Append(Settle(log, "ok", issued + 1),
                           Ev("entropy", "running", 0, 0))
          /\ UNCHANGED <<sleepLocals, result, sawCancel>>
     ELSE /\ AttestReturned(FALSE, now + d, Settle(log, r, 0))
          /\ UNCHANGED <<blocking, issued, nonce>>
  /\ UNCHANGED pureVars
  /\ UNCHANGED <<attestation_valid_until, run_fingerprints, call, runs,
                 cancel, cycle, total, entropy, commitment,
                 fingerprint_payload, payload, collected, prev, used,
                 cancelAt>>

\* variant: with fingerprints enabled the commitment is left until the probe
\* battery has returned
EntropyDoneCommitDeferred ==
  /\ pc = "entropy"
  /\ collected' = collected + 1
  /\ entropy' = CollectEntropy(collected + 1)
  /\ commitment' = Commitment(nonce, Address, entropy')
  /\ IF run_fingerprints
     THEN /\ pc' = "fingerprint"
          /\ SpawnBlocking("validate_all_checks")
          /\ log' = Append(Settle(log, "done", collected + 1),
                           Ev("fingerprint", "running", 0, 0))
          /\ UNCHANGED <<fingerprint_payload, payload>>
     ELSE /\ fingerprint_payload' = {}
          /\ blocking' = "none"
          /\ payload' = BuildPayload(nonce, commitment', entropy', {})
          /\ pc' = "submit"
          /\ log' = Settle(log, "done", collected + 1)
                      \o <<Ev("commit", "done", 0, 0),
                           Ev("submit", "sent", 0, 0)>>
  /\ UNCHANGED pureVars
  /\ UNCHANGED <<now, attestation_valid_until, run_fingerprints, call, runs,
                 cancel, cycle, total, nonce, sleepLocals, issued, prev, used,
                 cancelAt, result, sawCancel>>

\* attest: the blocking entropy task returns; commitment; then either the
\* probe battery is spawned or the payload is built and submitted
EntropyDone ==
  /\ pc = "entropy"
  /\ collected' = collected + 1
  /\ entropy' = CollectEntropy(collected + 1)
  /\ commitment' = Commitment(nonce, Address, entropy')
  /\ IF run_fingerprints
     THEN /\ pc' = "fingerprint"
          /\ SpawnBlocking("validate_all_checks")
          /\ log' = Settle(log, "done", collected + 1)
                      \o <<Ev("commit", "done", 0, 0),
                           Ev("fingerprint", "running", 0, 0)>>
          /\ UNCHANGED <<fingerprint_payload, payload>>
     ELSE /\ fingerprint_payload' = {}
          /\ blocking' = "none"
          /\ payload' = BuildPayload(nonce, commitment', entropy', {})
          /\ pc' = "submit"
          /\ log' = Settle(log, "done", collected + 1)
                      \o <<Ev("commit", "done", 0, 0),
                           Ev("submit", "sent", 0, 0)>>
  /\ UNCHANGED pureVars
  /\ UNCHANGED <<now, attestation_valid_until, run_fingerprints, call, runs,
                 cancel, cycle, total, nonce, sleepLocals, issued, prev, used,
                 cancelAt, result, sawCancel>>

\* variant: a report that did not pass ends the attempt with an error
FingerprintDoneGating(all_passed) ==
  /\ pc = "fingerprint"
  /\ IF all_passed
     THEN /\ fingerprint_payload' = {[all_passed |-> all_passed]}
          /\ payload' = BuildPayload(nonce, commitment, entropy,
                                     fingerprint_payload')
          /\ pc' = "submit"
          /\ log' = Append(Settle(log, "passed", 0),
                           Ev("submit", "sent", 0, 0))
          /\ UNCHANGED <<sleepLocals, result, sawCancel>>
     ELSE /\ AttestReturned(FALSE, now, Settle(log, "failed", 0))
          /\ UNCHANGED <<fingerprint_payload, payload>>
  /\ blocking' = "none"
  /\ UNCHANGED pureVars
  /\ UNCHANGED <<now, attestation_valid_until, run_fingerprints, call, runs,
                 cancel, cycle, total, nonce, entropy, commitment, issued,
                 collected, prev, used, cancelAt>>

\* attest: validate_all_checks_async returns a report; payload; submit
FingerprintDone(all_passed) ==
  /\ pc = "fingerprint"
  /\ fingerprint_payload' = {[all_passed |-> all_passed]}
  /\ payload' = BuildPayload(nonce, commitment, entropy, fingerprint_payload')
  /\ pc' = "submit"
  /\ log' = Append(Settle(log, IF all_passed THEN "passed" ELSE "failed", 0),
                   Ev("submit", "sent", 0, 0))
  /\ blocking' = "none"
  /\ UNCHANGED pureVars
  /\ UNCHANGED <<now, attestation_valid_until, run_fingerprints, call, runs,
                 cancel, cycle, total, nonce, entropy, commitment,
                 sleepLocals, issued, collected, prev, used, cancelAt, result,
                 sawCancel>>

\* attest: submit_attestation returns after d seconds with result r; attest
\* returns and its locals go out of scope
SubmitResp(r, d) ==
  /\ pc = "submit"
  /\ now' = now + d
  /\ used' = used \cup {<<payload.nonce, payload.report.derived.sample>>}
  /\ nonce' = <<>>
  /\ entropy' = NoEntropy
  /\ commitment' = NoCommitment
  /\ fingerprint_payload' = {}
  /\ payload' = NoPayload
  /\ attestation_valid_until' =
       ValidityAfterSubmit(r, now + d, attestation_valid_until)
  /\ AttestReturned(r = "accepted", now + d, Settle(log, r, 0))
  /\ UNCHANGED unitVars
  /\ UNCHANGED <<run_fingerprints, call, runs, cancel, cycle, total, issued,
                 collected, prev, cancelAt>>

\* the enrollment request returns after d seconds with result r
EnrollResp(r, d) ==
  /\ pc = "enroll"
  /\ now' = now + d
  /\ CASE MinerEnroll(r) = "Ok(true)" ->
            EnterSleep(now + d, BLOCK_TIME, "epoch", Settle(log, r, 0))
       [] MinerEnroll(r) = "Ok(false)" ->
            EnterSleep(now + d, RETRY_DELAY, "enroll_retry",
                       Settle(log, r, 0))
       [] OTHER ->
            /\ pc' = "idle"
            /\ result' = "err"
            /\ log' = Settle(log, r, 0)
            /\ UNCHANGED <<sleepLocals, sawCancel>>
  /\ UNCHANGED unitVars
  /\ UNCHANGED <<attestation_valid_until, run_fingerprints, call, runs,
                 cancel, cycle, total, attestLocals, issued, collected, prev,
                 used, cancelAt>>

\* tokio::time::sleep(1s) returns and the while loop's head runs again
SleepWake ==
  LET k == IF cancel THEN 1 ELSE Stride(now - start, duration)
  IN /\ pc = "sleep"
     /\ now' = now + k * POLL_INTERVAL
     /\ SleepPoll(now + k * POLL_INTERVAL, start, duration, site, log)
     /\ UNCHANGED unitVars
     /\ UNCHANGED <<attestation_valid_until, run_fingerprints, call, runs,
                    cancel, cycle, total, attestLocals, issued, collected,
                    prev, used, cancelAt>>

\* the balance query returns after d seconds; logged either way
BalanceResp(r, d) ==
  /\ pc = "balance"
  /\ now' = now + d
  /\ pc' = "top"
  /\ log' = Settle(log, r, 0)
  /\ UNCHANGED unitVars
  /\ UNCHANGED <<attestation_valid_until, run_fingerprints, call, runs,
                 cancel, cycle, total, attestLocals, sleepLocals, issued,
                 collected, prev, used, cancelAt, result, sawCancel>>

Next ==
  \/ \E t \in CallTimes(now, attestation_valid_until), c \in BOOLEAN :
       CallMineLoop(t, c)
  \/ SetCancel
  \/ LoopTop
  \/ \E r \in ChallengeResults, d \in NetDelays : ChallengeResp(r, d)
  \/ EntropyDone
  \/ \E b \in BOOLEAN : FingerprintDone(b)
  \/ \E r \in SubmitResults, d \in NetDelays : SubmitResp(r, d)
  \/ \E r \in EnrollResults, d \in NetDelays : EnrollResp(r, d)
  \/ SleepWake
  \/ \E r \in BalanceResults, d \in NetDelays : BalanceResp(r, d)

Spec == Init /\ [][Next]_vars

\* the steps of the task that runs mine_loop: the runtime polls it again
\* whenever the request, blocking task or timer it awaits has completed
LoopStep ==
  \/ LoopTop
  \/ \E r \in ChallengeResults, d \in NetDelays : ChallengeResp(r, d)
  \/ EntropyDone
  \/ \E b \in BOOLEAN : FingerprintDone(b)
  \/ \E r \in SubmitResults, d \in NetDelays : SubmitResp(r, d)
  \/ \E r \in EnrollResults, d \in NetDelays : EnrollResp(r, d)
  \/ SleepWake
  \/ \E r \in BalanceResults, d \in NetDelays : BalanceResp(r, d)

\* every request returns (the client's timeout bounds it), every blocking
\* task returns and every timer fires
SpecLive == Spec /\ WF_vars(LoopStep)

\* ------------------------------------------------- panicking blocking tasks
\* attest: collect_entropy panics on its blocking thread; the JoinError
\* meets .expect(), which panics in the task that runs attest, and the panic
\* unwinds through mine_loop and block_on
EntropyPanic ==
  /\ pc = "entropy"
  /\ pc' = "panicked"
  /\ result' = "panic"
  /\ log' = Settle(log, "panicked", 0)
  /\ blocking' = "none"
  /\ UNCHANGED pureVars
  /\ UNCHANGED <<now, attestation_valid_until, run_fingerprints, cancel,
                 call, cycle, total, runs, attestLocals, sleepLocals, issued,
                 collected, prev, used, cancelAt, sawCancel>>

\* attest: a probe panics inside validate_all_checks_async's blocking task
FingerprintPanic ==
  /\ pc = "fingerprint"
  /\ pc' = "panicked"
  /\ result' = "panic"
  /\ log' = Settle(log, "panicked", 0)
  /\ blocking' = "none"
  /\ UNCHANGED pureVars
  /\ UNCHANGED <<now, attestation_valid_until, run_fingerprints, cancel,
                 call, cycle, total, runs, attestLocals, sleepLocals, issued,
                 collected, prev, used, cancelAt, sawCancel>>

NextPanic ==
  \/ Next
  \/ EntropyPanic
  \/ FingerprintPanic

SpecPanic == Init /\ [][NextPanic]_vars

\* ------------------------------------------------------ one-shot callers
ToolPcs == {"t_challenge", "t_entropy", "t_submit", "t_enroll"}

\* the entropy value tool_attest computes inline (no min, max, preview)
ToolEntropy(k) == [sample |-> k, variance_ns |-> k]

\* the caller awaits miner.attest() once, outside mine_loop
CallAttest ==
  /\ pc = "idle"
  /\ runs < MaxRuns
  /\ runs' = runs + 1
  /\ call' = "attest"
  /\ pc' = "challenge"
  /\ result' = "running"
  /\ log' = <<Ev("challenge", "sent", 0, 0)>>
  /\ prev' = <<>>
  /\ UNCHANGED unitVars
  /\ UNCHANGED <<now, attestation_valid_until, run_fingerprints, cancel,
                 cycle, total, attestLocals, sleepLocals, issued, collected,
                 used, cancelAt, sawCancel>>

\* tool_attest up to its first request; the wallet file or the hardware
\* detection may fail first
CallToolAttest(setup_ok) ==
  /\ pc = "idle"
  /\ runs < MaxRuns
  /\ runs' = runs + 1
  /\ call' = "tool_attest"
  /\ prev' = <<>>
  /\ IF setup_ok
     THEN /\ pc' = "t_challenge"
          /\ result' = "running"
          /\ log' = <<Ev("challenge", "sent", 0, 0)>>
     ELSE /\ pc' = "idle"
          /\ result' = "err"
          /\ log' = <<>>
  /\ UNCHANGED unitVars
  /\ UNCHANGED <<now, attestation_valid_until, run_fingerprints, cancel,
                 cycle, total, attestLocals, sleepLocals, issued, collected,
                 used, cancelAt, sawCancel>>

\* tool_attest: the challenge request returns
ToolChallengeResp(r, d) ==
  /\ pc = "t_challenge"
  /\ now' = now + d
  /\ IF r = "ok"
     THEN /\ issued' = issued + 1
          /\ nonce' = NonceStr(issued + 1)
          /\ pc' = "t_entropy"
          /\ SpawnBlocking("entropy_closure")
          /\ log' = Append(Settle(log, "ok", issued + 1),
                           Ev("entropy", "running", 0, 0))
          /\ UNCHANGED result
     ELSE /\ pc' = "idle"
          /\ result' = "err"
          /\ log' = Settle(log, r, 0)
          /\ UNCHANGED <<blocking, issued, nonce>>
  /\ UNCHANGED pureVars
  /\ UNCHANGED <<attestation_valid_until, run_fingerprints, cancel, call,
                 cycle, total, runs, entropy, commitment,
                 fingerprint_payload, payload, sleepLocals, collected, prev,
                 used, cancelAt, sawCancel>>

\* tool_attest: the blocking entropy closure returns; commitment; payload;
\* the submission is sent
ToolEntropyDone ==
  /\ pc = "t_entropy"
  /\ collected' = collected + 1
  /\ entropy' = ToolEntropy(collected + 1)
  /\ commitment' = Commitment(nonce, Address, entropy')
  /\ payload' = BuildPayload(nonce, commitment', entropy', {})
  /\ pc' = "t_submit"
  /\ log' = Settle(log, "done", collected + 1)
              \o <<Ev("commit", "done", 0, 0), Ev("submit", "sent", 0, 0)>>
  /\ blocking' = "none"
  /\ UNCHANGED pureVars
  /\ UNCHANGED <<now, attestation_valid_until, run_fingerprints, cancel,
                 call, cycle, total, runs, nonce, fingerprint_payload,
                 sleepLocals, issued, prev, used, cancelAt, result,
                 sawCancel>>

\* tool_attest: submit_attestation returns; the tool returns
ToolSubmitResp(r, d) ==
  /\ pc = "t_submit"
  /\ now' = now + d
  /\ used' = used \cup {<<payload.nonce, payload.report.derived.sample>>}
  /\ nonce' = <<>>
  /\ entropy' = NoEntropy
  /\ commitment' = NoCommitment
  /\ payload' = NoPayload
  /\ pc' = "idle"
  /\ result' = IF r = "accepted" THEN "ok" ELSE "err"
  /\ log' = Settle(log, r, 0)
  /\ UNCHANGED unitVars
  /\ UNCHANGED <<attestation_valid_until, run_fingerprints, cancel, call,
                 cycle, total, runs, fingerprint_payload, sleepLocals,
                 issued, collected, prev, cancelAt, sawCancel>>

\* tool_enroll up to its request; the wallet file or the hardware detection
\* may fail first
CallToolEnroll(setup_ok) ==
  /\ pc = "idle"
  /\ runs < MaxRuns
  /\ runs' = runs + 1
  /\ call' = "tool_enroll"
  /\ prev' = <<>>
  /\ IF setup_ok
     THEN /\ pc' = "t_enroll"
          /\ result' = "running"
          /\ log' = <<Ev("enroll", "sent", 0, 0)>>
     ELSE /\ pc' = "idle"
          /\ result' = "err"
          /\ log' = <<>>
  /\ UNCHANGED unitVars
  /\ UNCHANGED <<now, attestation_valid_until, run_fingerprints, cancel,
                 cycle, total, attestLocals, sleepLocals, issued, collected,
                 used, cancelAt, sawCancel>>

\* tool_enroll: Err for a client error, else Ok with "enrolled": resp.ok
ToolEnrollResult(r) ==
  IF ClientEnroll(r) \in {"Ok(ok)", "Ok(notok)"} THEN "ok" ELSE "err"

\* tool_enroll: the enrollment request returns; the tool returns
ToolEnrollResp(r, d) ==
  /\ pc = "t_enroll"
  /\ now' = now + d
  /\ pc' = "idle"
  /\ result' = ToolEnrollResult(r)
  /\ log' = Settle(log, r, 0)
  /\ UNCHANGED unitVars
  /\ UNCHANGED <<attestation_valid_until, run_fingerprints, cancel, call,
                 cycle, total, runs, attestLocals, sleepLocals, issued,
                 collected, prev, used, cancelAt, sawCancel>>

NextOneShot ==
  \/ CallAttest
  \/ \E ok \in BOOLEAN : CallToolAttest(ok)
  \/ \E r \in ChallengeResults, d \in NetDelays : ChallengeResp(r, d)
  \/ EntropyDone
  \/ \E b \in BOOLEAN : FingerprintDone(b)
  \/ \E r \in SubmitResults, d \in NetDelays : SubmitResp(r, d)
  \/ \E r \in ChallengeResults, d \in NetDelays : ToolChallengeResp(r, d)
  \/ ToolEntropyDone
  \/ \E r \in SubmitResults, d \in NetDelays : ToolSubmitResp(r, d)
  \/ \E ok \in BOOLEAN : CallToolEnroll(ok)
  \/ \E r \in EnrollResults, d \in NetDelays : ToolEnrollResp(r, d)

SpecOneShot == Init /\ [][NextOneShot]_vars

\* ------------------------------------------------------- client functions
\* a caller awaits client.submit_attestation(&payload); the exchange takes
\* d seconds, the whole timeout when it times out
CallSubmitAttestation(resp, d) ==
  /\ pc = "idle"
  /\ runs < MaxRuns
  /\ resp.transport = "timeout" => d = HTTP_TIMEOUT
  /\ runs' = runs + 1
  /\ now' = now + d
  /\ call' = "submit_attestation"
  /\ response' = resp
  /\ returned' = ClientSubmit(resp)
  /\ UNCHANGED <<attestation_valid_until, run_fingerprints, cancel, pc,
                 cycle, total, attestLocals, sleepLocals, issued, collected,
                 log, prev, used, cancelAt, result, sawCancel, machine,
                 report, computed>>
  /\ UNCHANGED <<cryptoVars, blocking>>

\* a caller awaits client.balance(wallet)
CallBalance(resp, d) ==
  /\ pc = "idle"
  /\ runs < MaxRuns
  /\ resp.transport = "timeout" => d = HTTP_TIMEOUT
  /\ runs' = runs + 1
  /\ now' = now + d
  /\ call' = "balance"
  /\ response' = resp
  /\ returned' = ClientBalance(resp)
  /\ UNCHANGED <<attestation_valid_until, run_fingerprints, cancel, pc,
                 cycle, total, attestLocals, sleepLocals, issued, collected,
                 log, prev, used, cancelAt, result, sawCancel, machine,
                 report, computed>>
  /\ UNCHANGED <<cryptoVars, blocking>>

NextClient ==
  \/ \E resp \in Responses, d \in NetDelays : CallSubmitAttestation(resp, d)
  \/ \E resp \in Responses, d \in NetDelays : CallBalance(resp, d)

SpecClient == Init /\ [][NextClient]_vars

\* ----------------------------------------------------- fingerprint report
\* a fresh process runs validate_all_checks on machine m
RunValidateAllChecks(m) ==
  /\ call = "none"
  /\ call' = "validate_all_checks"
  /\ machine' = m
  /\ report' = ValidateAllChecks(m)
  /\ UNCHANGED <<now, attestation_valid_until, run_fingerprints, cancel, pc,
                 cycle, total, runs, attestLocals, sleepLocals, issued,
                 collected, log, prev, used, cancelAt, result, sawCancel,
                 response, returned, computed>>
  /\ UNCHANGED <<cryptoVars, blocking>>

NextFingerprint == \E m \in Machines : RunValidateAllChecks(m)

SpecFingerprint == Init /\ [][NextFingerprint]_vars

\* ------------------------------------------------------------ commitment
Addresses == {Address, <<82, 84, 67, 50>>}
CommitNonces == {NonceStr(1), NonceStr(2)}
CommitEntropies == {CollectEntropy(1), CollectEntropy(2)}

\* step 3 of Miner::attest or the commitment of tool_attest, reached d
\* seconds after the last one with nonce n, a wallet whose address is a and
\* entropy e; fp tells whether this Miner runs the probe battery
ComputeCommitment(by, n, a, e, fp, d) ==
  /\ call \in {"none", "commitment"}
  /\ runs < MaxRuns
  /\ by = "tool_attest" => ~fp
  /\ runs' = runs + 1
  /\ call' = "commitment"
  /\ now' = now + d
  /\ cycle' = IF by = "attest" THEN cycle + 1 ELSE cycle
  /\ nonce' = n
  /\ entropy' = e
  /\ commitment' = Commitment(n, a, e)
  /\ computed' = computed \cup
       {[by |-> by, nonce |-> n, address |-> a, entropy |-> e,
         at |-> now, cycle |-> cycle', fingerprints |-> fp,
         commitment |-> commitment']}
  /\ UNCHANGED <<attestation_valid_until, run_fingerprints, cancel, pc,
                 total, fingerprint_payload, payload, sleepLocals, issued,
                 collected, log, prev, used, cancelAt, result, sawCancel,
                 response, returned, machine, report>>
  /\ UNCHANGED <<cryptoVars, blocking>>

NextCommitment ==
  \E by \in {"attest", "tool_attest"}, n \in CommitNonces, a \in Addresses,
     e \in CommitEntropies, fp \in BOOLEAN, d \in {0, POLL_INTERVAL} :
    ComputeCommitment(by, n, a, e, fp, d)

SpecCommitment == Init /\ [][NextCommitment]_vars

\* ----------------------------------------------------------- wallet calls
oldVars == <<now, attestation_valid_until, run_fingerprints, cancel, pc,
             cycle, total, runs, attestLocals, sleepLocals, issued,
             collected, log, prev, used, cancelAt, result, sawCancel,
             response, returned, machine, report, computed, blocking>>

\* RtcWallet::generate: the generator returns the key sk
Generate(sk) ==
  /\ call' = "generate"
  /\ wallet' = WalletOf(sk)
  /\ restored' = NoRestore
  /\ UNCHANGED <<wallet_file, keystore, decrypted>>
  /\ UNCHANGED oldVars

\* RtcWallet::from_private_key_hex(hex_key)
RestoreFromHex(hex_key) ==
  /\ wallet # NoWallet
  /\ call' = "from_private_key_hex"
  /\ restored' = [by |-> "from_private_key_hex", input |-> hex_key,
                  out |-> FromPrivateKeyHex(hex_key)]
  /\ UNCHANGED <<wallet, wallet_file, keystore, decrypted>>
  /\ UNCHANGED oldVars

\* wallet.save_plaintext(path): the directory or the write may fail, which
\* leaves the path as it was; a failing chmod leaves the new file
SavePlaintext(io) ==
  /\ wallet # NoWallet
  /\ call' = "save_plaintext"
  /\ wallet_file' = IF io = "write_failed" THEN wallet_file
                                            ELSE WalletFileJson(wallet, now)
  /\ restored' = [by |-> "save_plaintext", input |-> <<>>,
                  out |-> IF io = "ok" THEN Ok(0) ELSE Err("Io")]
  /\ UNCHANGED <<wallet, keystore, decrypted>>
  /\ UNCHANGED oldVars

\* RtcWallet::from_file(path)
RestoreFromFile ==
  /\ call' = "from_file"
  /\ restored' = [by |-> "from_file", input |-> wallet_file,
                  out |-> FromFile(wallet_file)]
  /\ UNCHANGED <<wallet, wallet_file, keystore, decrypted>>
  /\ UNCHANGED oldVars

NextWallet ==
  \/ \E sk \in Keys : Generate(sk)
  \/ /\ wallet # NoWallet
     /\ \E h \in {PrivateKeyHex(wallet)} \cup OtherHexInputs(wallet) :
          RestoreFromHex(h)
  \/ \E io \in {"ok", "write_failed", "chmod_failed"} : SavePlaintext(io)
  \/ RestoreFromFile

SpecWallet == Init /\ [][NextWallet]_vars

\* --------------------------------------------------------- keystore calls
\* Keystore::encrypt(secret, password, address); the generator returns salt
\* and nonce
CallKeystoreEncrypt(secret, password, salt, iv) ==
  /\ call' = "keystore_encrypt"
  /\ keystore' = [secret |-> secret, password |-> password,
                  ks |-> KeystoreEncryptWith(secret, password, Address, salt,
                                             iv, now)]
  /\ decrypted' = NoDecrypt
  /\ UNCHANGED <<wallet, wallet_file, restored>>
  /\ UNCHANGED oldVars

\* keystore.decrypt(password)
CallKeystoreDecrypt(password) ==
  /\ keystore # NoKeystore
  /\ call' = "keystore_decrypt"
  /\ decrypted' = [password |-> password,
                   out |-> KeystoreDecryptOf(keystore.ks, password)]
  /\ UNCHANGED <<wallet, wallet_file, restored, keystore>>
  /\ UNCHANGED oldVars

NextKeystore ==
  \/ \E secret \in Secrets, password \in Passwords, salt \in Salts,
        iv \in GcmNonces :
       CallKeystoreEncrypt(secret, password, salt, iv)
  \/ \E password \in Passwords : CallKeystoreDecrypt(password)

SpecKeystore == Init /\ [][NextKeystore]_vars

TypeOK ==
  /\ now \in Nat
  /\ pc \in LoopPcs \cup ToolPcs \cup {"idle", "panicked"}
  /\ result \in {"none", "running", "ok", "err", "panic"}
  /\ call \in {"none", "mine_loop", "attest", "tool_attest", "tool_enroll",
               "submit_attestation", "balance", "validate_all_checks",
               "commitment", "generate", "from_private_key_hex",
               "save_plaintext", "from_file", "keystore_encrypt",
               "keystore_decrypt"}
  /\ blocking \in {"none", "collect_entropy", "validate_all_checks",
                   "entropy_closure"}
  /\ response \in Responses \cup {NoResponse}
  /\ returned.kind \in {"none", "Ok", "Network", "NodeApi",
                       "AttestationRejected"}

\* ================================================================ claims
AttestFailures == {"transport", "status", "json", "notok"}
EnrollFailures == {"notok", "status", "transport", "json"}
HasEvent(lg, e) == \E i \in DOMAIN lg : lg[i].ev = e

\* C1: a cycle attests exactly when the time it reads is at or past
\* attestation_valid_until; a cycle that starts inside the validity window
\* sends no challenge and no submission and goes straight to the enrollment
\* request; the first cycle of a new Miner attests.
C1_AttestIffExpired ==
  /\ [][(pc = "top" /\ cycle' = cycle + 1) =>
          /\ (now >= attestation_valid_until) = (pc' = "challenge")
          /\ (now < attestation_valid_until) =
               (pc' = "enroll" /\ log' = <<Ev("enroll", "sent", 0, 0)>>)]_vars
  /\ [](call = "mine_loop" /\ cycle >= 1 =>
          /\ log # <<>>
          /\ log[1].ev = "enroll" =>
               ~HasEvent(log, "challenge") /\ ~HasEvent(log, "submit")
          /\ total = 1 => log[1].ev = "challenge")

\* a cycle that began inside the validity window is waiting for the
\* enrollment response, having sent nothing else
C1_Witness ==
  /\ call = "mine_loop"
  /\ pc = "enroll"
  /\ now < attestation_valid_until
  /\ log = <<Ev("enroll", "sent", 0, 0)>>

\* C2: after a failed attestation attempt (challenge or submission, any kind
\* of failure) the loop sleeps 60 seconds, interruptibly, and then starts the
\* next cycle; that cycle sends no enrollment request and no balance query.
C2_FailedAttestSleepsAndRestarts ==
  call = "mine_loop" =>
    \A i \in DOMAIN log :
      (log[i].ev \in {"challenge", "submit"} /\ log[i].res \in AttestFailures)
      => /\ Len(log) = i + 1
         /\ log[i + 1].ev = "sleep"
         /\ log[i + 1].dur = RETRY_DELAY
         /\ ~HasEvent(log, "enroll")
         /\ ~HasEvent(log, "balance")
         /\ CASE log[i + 1].res = "sleeping" ->
                   /\ pc = "sleep"
                   /\ duration = RETRY_DELAY
                   /\ now - start < RETRY_DELAY
              [] log[i + 1].res = "elapsed" ->
                   /\ log[i + 1].n = RETRY_DELAY
                   /\ pc = "top" \/ (pc = "idle" /\ sawCancel)
              [] log[i + 1].res = "cancelled" ->
                   /\ log[i + 1].n < RETRY_DELAY
                   /\ pc = "idle"
                   /\ result = "ok"
              [] OTHER -> FALSE

\* a rejected submission was followed by the full 60-second sleep and the
\* loop is back at its top
C2_Witness ==
  /\ call = "mine_loop"
  /\ pc = "top"
  /\ \E i \in DOMAIN log : log[i].ev = "submit" /\ log[i].res = "notok"
  /\ log[Len(log)].ev = "sleep"
  /\ log[Len(log)].res = "elapsed"

\* C3: when the flag is set while the loop is inside an interruptible sleep,
\* at any second of it, mine_loop returns within about one second (at most
\* two polling intervals) of that moment.
C3_CancelLatency ==
  (call = "mine_loop" /\ cancelAt.pc = "sleep") =>
    now - cancelAt.t <= 2 * POLL_INTERVAL

\* C4: node failures never end the loop: mine_loop never returns an error,
\* it is running until it returns Ok, and it returns Ok only after a poll
\* has read the flag as set.
C4_LoopSurvivesFailures ==
  call = "mine_loop" =>
    /\ result \in {"running", "ok"}
    /\ (pc = "idle") = (result = "ok")
    /\ result = "ok" => sawCancel
    /\ sawCancel => cancel

\* the loop is still running in a cycle whose enrollment failed in
\* transport, after a cycle in which a request had failed as well
C4_Witness ==
  /\ call = "mine_loop"
  /\ result = "running"
  /\ \E i \in DOMAIN prev : prev[i].res = "fail"
  /\ \E i \in DOMAIN log : log[i].ev = "enroll" /\ log[i].res = "transport"

\* C5: a submitted payload carries, as payload nonce and as report nonce,
\* the nonce issued by the challenge of the same attempt, and a commitment
\* over that nonce and the entropy sample taken in the same attempt; neither
\* the nonce nor the sample was used by an earlier attempt.
C5_FreshNonceAndEntropy ==
  (call = "mine_loop" /\ pc = "submit") =>
    /\ Len(log) >= 2
    /\ log[1].ev = "challenge" /\ log[1].res = "ok"
    /\ log[2].ev = "entropy" /\ log[2].res = "done"
    /\ LET n == NonceStr(log[1].n)
           e == CollectEntropy(log[2].n)
       IN /\ payload.nonce = n
          /\ payload.report.nonce = n
          /\ payload.report.derived = e
          /\ payload.report.commitment = [sha256 |-> n \o Address \o ToJson(e)]
          /\ \A u \in used : u[1] # n /\ u[2] # e.sample

\* the submission of a second attempt is in flight
C5_Witness ==
  /\ call = "mine_loop"
  /\ pc = "submit"
  /\ used # {}

\* C6: in one attempt of Miner::attest or tool_attest the challenge has
\* completed before entropy collection starts, the collection has completed
\* before the commitment is computed, and the commitment is computed before
\* the submission is sent.
C6_StepOrder ==
  /\ \A i \in DOMAIN log :
       /\ log[i].ev = "entropy" =>
            i > 1 /\ log[i - 1].ev = "challenge" /\ log[i - 1].res = "ok"
       /\ log[i].ev = "commit" =>
            i > 1 /\ log[i - 1].ev = "entropy" /\ log[i - 1].res = "done"
       /\ log[i].ev = "submit" =>
            \E j \in 1..(i - 1) : log[j].ev = "commit"
  /\ pc \in {"challenge", "t_challenge"} =>
       nonce = <<>> /\ entropy = NoEntropy /\ commitment = NoCommitment
  /\ pc \in {"entropy", "t_entropy"} =>
       nonce # <<>> /\ entropy = NoEntropy /\ commitment = NoCommitment
  /\ pc \in {"submit", "t_submit"} =>
       /\ payload.nonce # <<>>
       /\ payload.report.derived # NoEntropy
       /\ payload.report.commitment # NoCommitment

\* tool_attest has gone through all four steps and waits for the node
C6_Witness ==
  /\ call = "tool_attest"
  /\ pc = "t_submit"
  /\ Len(log) = 4
  /\ log[4].ev = "submit"

AcceptedNow ==
  /\ pc = "submit"
  /\ \E i \in DOMAIN log' : log'[i].ev = "submit" /\ log'[i].res = "accepted"

\* C7: when the node accepts a submission, attestation_valid_until becomes
\* the time of acceptance plus 86,400 seconds, whatever it was before.
C7_ValidityFromAcceptance ==
  [][AcceptedNow => attestation_valid_until' = now' + ATTEST_VALIDITY]_vars

\* a second acceptance, a validity window after the first
C7_Witness ==
  /\ call = "mine_loop"
  /\ pc = "enroll"
  /\ HasEvent(log, "submit")
  /\ now > ATTEST_VALIDITY
  /\ attestation_valid_until = now + ATTEST_VALIDITY

\* C8: attestation_valid_until changes in no step but the acceptance of a
\* submission: failed attempts, enrollments, balance queries and sleeps
\* leave it as it is.
C8_OnlyAcceptanceChangesValidity ==
  [][attestation_valid_until' # attestation_valid_until => AcceptedNow]_vars

\* an attempt made after the validity ran out has failed and the loop sleeps,
\* the old value still in place
C8_Witness ==
  /\ call = "mine_loop"
  /\ pc = "sleep"
  /\ site = "attest_retry"
  /\ attestation_valid_until > 0
  /\ now >= attestation_valid_until

\* C9: a balance query is sent only after, in the same cycle, an accepted
\* enrollment and a 600-second sleep that ran to its end without observing
\* the flag; after an accepted enrollment the loop sleeps the 600 seconds
\* and sends the balance query when they are over.
C9_BalanceAfterFullEpochWait ==
  call = "mine_loop" =>
    \A i \in DOMAIN log :
      /\ log[i].ev = "balance" =>
           /\ i >= 3
           /\ log[i - 1].ev = "sleep"
           /\ log[i - 1].dur = BLOCK_TIME
           /\ log[i - 1].res = "elapsed"
           /\ log[i - 1].n >= BLOCK_TIME
           /\ log[i - 2].ev = "enroll"
           /\ log[i - 2].res = "ok"
      /\ (log[i].ev = "enroll" /\ log[i].res = "ok") =>
           /\ Len(log) > i
           /\ log[i + 1].ev = "sleep"
           /\ log[i + 1].dur = BLOCK_TIME
           /\ log[i + 1].res = "sleeping" =>
                pc = "sleep" /\ now - start < BLOCK_TIME
           /\ log[i + 1].res = "elapsed" =>
                Len(log) = i + 2 /\ log[i + 2].ev = "balance"
           /\ log[i + 1].res = "cancelled" =>
                Len(log) = i + 1 /\ pc = "idle"

\* the balance query is in flight after the full wait
C9_Witness ==
  /\ call = "mine_loop"
  /\ pc = "balance"
  /\ log[Len(log) - 1].res = "elapsed"
  /\ log[Len(log) - 1].n >= BLOCK_TIME

IsObserved(e) == e.ev \in {"enroll", "sleep", "balance"}
Label(e) ==
  CASE e.ev = "sleep" /\ e.dur = RETRY_DELAY -> "sleep60"
    [] e.ev = "sleep" /\ e.dur = BLOCK_TIME -> "sleep600"
    [] OTHER -> e.ev
\* the enrollments, sleeps and balance queries of a cycle, in order
Observed(lg) ==
  LET f == SelectSeq(lg, IsObserved) IN [i \in DOMAIN f |-> Label(f[i])]
FullSleeps(lg) ==
  \A i \in DOMAIN lg :
    lg[i].ev = "sleep" => lg[i].res = "elapsed" /\ lg[i].n = lg[i].dur

\* C10: after a rejected or failed enrollment the loop sleeps 60 seconds,
\* interruptibly, sends no balance query and starts a new cycle; when the
\* node rejects one enrollment and accepts the next, the loop is seen to
\* enroll, sleep 60 seconds, enroll, sleep 600 seconds, query the balance.
C10_EnrollRetry ==
  call = "mine_loop" =>
    /\ \A i \in DOMAIN log :
         (log[i].ev = "enroll" /\ log[i].res \in EnrollFailures) =>
           /\ Len(log) = i + 1
           /\ log[i + 1].ev = "sleep"
           /\ log[i + 1].dur = RETRY_DELAY
           /\ ~HasEvent(log, "balance")
           /\ CASE log[i + 1].res = "sleeping" ->
                     pc = "sleep" /\ now - start < RETRY_DELAY
                [] log[i + 1].res = "elapsed" ->
                     /\ log[i + 1].n = RETRY_DELAY
                     /\ pc = "top" \/ (pc = "idle" /\ sawCancel)
                [] log[i + 1].res = "cancelled" ->
                     log[i + 1].n < RETRY_DELAY /\ pc = "idle"
                [] OTHER -> FALSE
    /\ ( /\ \E i \in DOMAIN prev : prev[i].ev = "enroll" /\ prev[i].res = "fail"
         /\ \E i \in DOMAIN log : log[i].ev = "enroll" /\ log[i].res = "ok"
         /\ HasEvent(log, "balance") )
       => /\ Observed(prev) \o Observed(log) =
               <<"enroll", "sleep60", "enroll", "sleep600", "balance">>
          /\ FullSleeps(prev)
          /\ FullSleeps(log)

\* first enrollment rejected, second accepted, balance query answered
C10_Witness ==
  /\ call = "mine_loop"
  /\ pc = "top"
  /\ \E i \in DOMAIN prev : prev[i].ev = "enroll" /\ prev[i].res = "fail"
  /\ Observed(log) = <<"enroll", "sleep600", "balance">>
  /\ log[Len(log)].res = "ok"

NodeFailures == {"transport", "status", "json", "notok"}
HasFailure(lg) ==
  \E i \in DOMAIN lg :
    lg[i].ev \in {"challenge", "submit", "enroll"} /\ lg[i].res = "fail"

\* C11: every retry after a failed challenge, submission or enrollment is
\* delayed by 60 seconds, also when the cycle before had failed as well, and
\* the loop does not stop retrying: when the 60 seconds are over it is at the
\* top of the next cycle, and it never returns an error.
C11_FixedRetryNoCap ==
  call = "mine_loop" =>
    /\ result # "err"
    /\ \A i \in DOMAIN log :
         (log[i].ev \in {"challenge", "submit", "enroll"}
            /\ log[i].res \in NodeFailures)
         => /\ Len(log) = i + 1
            /\ log[i + 1] \in
                 {Ev("sleep", "sleeping", RETRY_DELAY, 0),
                  Ev("sleep", "elapsed", RETRY_DELAY, RETRY_DELAY)}
                 \cup {Ev("sleep", "cancelled", RETRY_DELAY, k) :
                         k \in 0..(RETRY_DELAY - 1)}
            /\ log[i + 1].res = "sleeping" =>
                 pc = "sleep" /\ duration = RETRY_DELAY /\ result = "running"
            /\ log[i + 1].res = "elapsed" =>
                 \/ pc = "top" /\ result = "running"
                 \/ pc = "idle" /\ sawCancel
    /\ \A i \in DOMAIN prev :
         (prev[i].ev \in {"challenge", "submit", "enroll"}
            /\ prev[i].res = "fail")
         => /\ Len(prev) = i + 1
            /\ prev[i + 1] = Ev("sleep", "elapsed", RETRY_DELAY, RETRY_DELAY)

\* a second cycle in a row has failed, has slept its 60 seconds and the loop
\* is at the top of the next cycle, the flag unset
C11_Witness ==
  /\ call = "mine_loop"
  /\ pc = "top"
  /\ ~cancel
  /\ result = "running"
  /\ HasFailure(prev)
  /\ \E i \in DOMAIN log : log[i].res \in NodeFailures
  /\ log[Len(log)] = Ev("sleep", "elapsed", RETRY_DELAY, RETRY_DELAY)

\* C12: once the flag is set while mine_loop runs, and every request,
\* blocking task and timer the loop waits for completes, mine_loop returns
\* Ok(()): it stays neither in a sleep nor in a cycle forever.
C12_CancelledLoopReturns ==
  (call = "mine_loop" /\ cancel) ~> (pc = "idle" /\ result = "ok")

\* the flag was set during the epoch wait and mine_loop has returned Ok
C12_Witness ==
  /\ call = "mine_loop"
  /\ cancelAt.pc = "sleep"
  /\ cancelAt.site = "epoch"
  /\ pc = "idle"
  /\ result = "ok"
  /\ sawCancel

Answered == response.transport = "ok"
SuccessStatus == response.status \in 200..299

\* C13: submit_attestation returns AttestationRejected when the node answers
\* with a non-success status or with a body whose ok is false, returns
\* Network when the request fails in transport, and returns Ok only when the
\* status is a success and ok is true.
C13_SubmitErrorKinds ==
  call = "submit_attestation" =>
    /\ (Answered /\ ~SuccessStatus) => returned = Err("AttestationRejected")
    /\ (Answered /\ response.body.parses /\ ~response.body.ok)
         => returned = Err("AttestationRejected")
    /\ ~Answered => returned = Err("Network")
    /\ returned.kind = "Ok" =>
         Answered /\ SuccessStatus /\ response.body.parses /\ response.body.ok
    /\ returned.kind \in {"Ok", "AttestationRejected", "Network"}

\* the node answered 403 with a body that says ok and the call was rejected
C13_Witness ==
  /\ call = "submit_attestation"
  /\ response.status = 403
  /\ response.body.ok
  /\ returned.kind = "AttestationRejected"

\* C14: balance returns Ok(0.0) on a non-success status, on a transport
\* error or timeout and on a body without the balance field; none of these
\* reaches the caller as an error.
C14_BalanceZeroOnAnyFailure ==
  (/\ call = "balance"
   /\ \/ ~Answered
      \/ ~SuccessStatus
      \/ response.body.parses /\ response.body.balance_rtc = {})
  => returned = Ok(0)

Requests == {"challenge", "submit", "enroll"}

\* C15: tool_attest and tool_enroll send each request at most once, and when
\* the challenge, the submission or the enrollment fails in transport or is
\* rejected by the node (non-success status, or a body that says not ok) the
\* tool returns an error at once: no success result, no further request.
C15_OneShotSurfacesErrors ==
  call \in {"tool_attest", "tool_enroll"} =>
    /\ \A e \in Requests :
         Cardinality({i \in DOMAIN log : log[i].ev = e}) <= 1
    /\ \A i \in DOMAIN log :
         (log[i].ev \in Requests /\ log[i].res \in {"transport", "status", "notok"})
         => Len(log) = i /\ pc = "idle" /\ result = "err"

\* C16: when the entropy collector or the probe battery panics in its
\* blocking task during an attempt of the mining loop, the loop treats the
\* attempt as failed (it logs, sleeps 60 seconds and goes on with the next
\* cycle); mine_loop keeps running and the process stays alive.
C16_PanicAbortsOnlyAttempt ==
  call = "mine_loop" =>
    /\ pc # "panicked"
    /\ result # "panic"
    /\ \A i \in DOMAIN log :
         (log[i].ev \in {"entropy", "fingerprint"} /\ log[i].res = "panicked")
         => /\ Len(log) > i
            /\ log[i + 1].ev = "sleep"
            /\ log[i + 1].dur = RETRY_DELAY

\* the number of indicators the machine shows, over all six sources
IndicatorCount(m) ==
  Len(m.dmi) + Len(m.env)
    + (IF m.cpuinfo_hypervisor THEN 1 ELSE 0)
    + (IF m.hypervisor_type \in {"xen"} THEN 1 ELSE 0)
    + (IF m.cloud_metadata THEN 1 ELSE 0)
    + (IF m.detect_virt \in {"kvm"} THEN 1 ELSE 0)

\* C17: the report of validate_all_checks has all_passed equal to the
\* conjunction of the six passed fields, and holds under each probe's name
\* the result that probe returned, unchanged.
C17_AllPassedIsConjunction ==
  call = "validate_all_checks" =>
    /\ DOMAIN report.checks = Probes
    /\ report.all_passed = (\A p \in Probes : report.checks[p].passed)
    /\ \A p \in OtherProbes :
         report.checks[p] = [passed |-> machine.verdicts[p],
                             data |-> [probe |-> p]]
    /\ report.checks["anti_emulation"].passed = (IndicatorCount(machine) = 0)
    /\ report.checks["anti_emulation"].data.indicator_count =
         IndicatorCount(machine)

\* five probes pass, the anti-emulation probe alone fails
C17_Witness ==
  /\ call = "validate_all_checks"
  /\ \A p \in OtherProbes : report.checks[p].passed
  /\ ~report.checks["anti_emulation"].passed
  /\ ~report.all_passed

\* C18: the anti-emulation probe passes exactly when no source yields an
\* indicator; one indicator from any source makes it fail; indicator_count
\* and is_likely_vm agree with the verdict.
C18_AntiEmulationPolarity ==
  call = "validate_all_checks" =>
    LET r == report.checks["anti_emulation"]
        n == IndicatorCount(machine)
    IN /\ r.passed = (n = 0)
       /\ Len(r.data.vm_indicators) = n
       /\ r.data.indicator_count = n
       /\ r.data.is_likely_vm = (n > 0)
       /\ r.data.is_likely_vm = ~r.passed

\* the cloud metadata endpoint answers, no other source shows anything
C18_Witness ==
  /\ call = "validate_all_checks"
  /\ machine.cloud_metadata
  /\ IndicatorCount(machine) = 1
  /\ ~report.checks["anti_emulation"].passed
  /\ report.checks["anti_emulation"].data.indicator_count = 1

SameInputs(x, y) ==
  x.nonce = y.nonce /\ x.address = y.address /\ x.entropy = y.entropy

InFlight(e) == e.res \in {"sent", "running"}
\* mine_loop returns in this step
Returns == call = "mine_loop" /\ pc \in LoopPcs /\ pc' = "idle"
\* the step is the store of true into the flag of the running loop
FlagStored == call = "mine_loop" /\ pc \in LoopPcs /\ ~cancel /\ cancel'

\* C20: the store into the flag changes nothing of the running loop; an
\* attempt, an enrollment request or a balance query in flight at that
\* moment goes on to its own end, an attempt through all of its steps; and
\* mine_loop returns only from a poll of the flag, at the top of a cycle or
\* inside an interruptible sleep, with no operation left unfinished.
C20_CancelIsCooperative ==
  /\ [][FlagStored =>
          UNCHANGED <<now, attestation_valid_until, call, pc, cycle,
                      attestLocals, sleepLocals, log, prev, result,
                      sawCancel>>]_vars
  /\ [][Returns =>
          /\ cancel
          /\ result' = "ok"
          /\ sawCancel'
          /\ \A i \in DOMAIN log' : ~InFlight(log'[i])
          /\ \/ pc = "top" /\ log' = log
             \/ /\ pc \in {"sleep", "challenge", "submit", "enroll"}
                /\ log'[Len(log')].ev = "sleep"
                /\ log'[Len(log')].res = "cancelled"]_vars
  /\ [][(call = "mine_loop" /\ cancel) =>
          /\ pc = "challenge" =>
               \/ pc' = "entropy"
               \/ \E i \in DOMAIN log' :
                    log'[i].ev = "challenge" /\ log'[i].res \in NodeFailures
          /\ pc = "entropy" => pc' \in {"fingerprint", "submit"}
          /\ pc = "fingerprint" => pc' = "submit"
          /\ pc = "submit" =>
               \E i \in DOMAIN log' :
                 log'[i].ev = "submit" /\ ~InFlight(log'[i])
          /\ pc = "enroll" =>
               \E i \in DOMAIN log' :
                 log'[i].ev = "enroll" /\ ~InFlight(log'[i])
          /\ pc = "balance" =>
               /\ pc' = "top"
               /\ ~InFlight(log'[Len(log')])]_vars

\* the flag was set while the challenge was in flight; the attempt went on
\* to an accepted submission and the loop returned at the next poll
C20_Witness ==
  /\ call = "mine_loop"
  /\ cancelAt.pc = "challenge"
  /\ pc = "idle"
  /\ result = "ok"
  /\ \E i \in DOMAIN log : log[i].ev = "submit" /\ log[i].res = "accepted"

\* C21: the payload handed to submit_attestation holds a fingerprint report
\* exactly when run_fingerprints is set, and the probe battery runs in an
\* attempt exactly in that case.
C21_FingerprintIffEnabled ==
  /\ pc = "fingerprint" => run_fingerprints
  /\ pc = "submit" =>
       /\ (payload.fingerprint # {}) = run_fingerprints
       /\ HasEvent(log, "fingerprint") = run_fingerprints
       /\ payload.fingerprint = fingerprint_payload
  /\ \A i \in DOMAIN log :
       /\ log[i].ev = "fingerprint" => run_fingerprints
       /\ (log[i].ev = "submit" /\ run_fingerprints) =>
            log[i - 1].ev = "fingerprint"

\* with fingerprints enabled, a submission that carries the report is in
\* flight
C21_Witness ==
  /\ call = "mine_loop"
  /\ pc = "submit"
  /\ run_fingerprints
  /\ payload.fingerprint # {}
  /\ HasEvent(log, "fingerprint")

\* C26 (as stated): with fingerprints enabled the probe battery runs after
\* the entropy collection and before the commitment is computed.
C26_ProbesBeforeCommitment ==
  /\ pc = "fingerprint" => ~HasEvent(log, "commit")
  /\ \A i, j \in DOMAIN log :
       (log[i].ev = "fingerprint" /\ log[j].ev = "commit") => i < j

Evs(lg) == [i \in DOMAIN lg |-> lg[i].ev]

\* C26 (amended): with fingerprints enabled the probe battery runs after
\* the commitment is computed and before the submission; the order of an
\* attempt is challenge, entropy collection, commitment, probe battery,
\* submission.
C26_ProbesAfterCommitment ==
  /\ pc = "fingerprint" =>
       /\ commitment = Commitment(nonce, Address, entropy)
       /\ Evs(log) = <<"challenge", "entropy", "commit", "fingerprint">>
  /\ \A i \in DOMAIN log :
       /\ log[i].ev = "fingerprint" =>
            /\ i = 4
            /\ SubSeq(Evs(log), 1, 3) = <<"challenge", "entropy", "commit">>
       /\ (log[i].ev = "submit" /\ run_fingerprints) =>
            i = 5 /\ log[4].ev = "fingerprint"

\* a submission is in flight after challenge, entropy, commitment and probes
C26_Witness ==
  /\ call = "mine_loop"
  /\ pc = "submit"
  /\ run_fingerprints
  /\ Evs(log) = <<"challenge", "entropy", "commit", "fingerprint", "submit">>

ChallengeFailures == {"transport", "status", "json"}

\* C28: when the challenge request fails (transport, status or body), the
\* attempt returns an error at once: no entropy is collected, no probe runs,
\* no commitment is computed and nothing is submitted.
C28_ChallengeFailureEndsAttempt ==
  /\ [](\A i \in DOMAIN log :
          (log[i].ev = "challenge" /\ log[i].res \in ChallengeFailures) =>
            /\ i = Len(log)
            /\ pc = "idle"
            /\ result = "err"
            /\ entropy = NoEntropy
            /\ commitment = NoCommitment
            /\ payload = NoPayload)
  /\ [][(/\ pc \in {"challenge", "t_challenge"}
         /\ log'[Len(log)].res \in ChallengeFailures) =>
          /\ pc' = "idle"
          /\ result' = "err"
          /\ Len(log') = Len(log)
          /\ collected' = collected
          /\ used' = used
          /\ UNCHANGED <<entropy, commitment, fingerprint_payload,
                         payload>>]_vars

\* Miner::attest has returned an error for a challenge whose body did not
\* parse
C28_Witness ==
  /\ call = "attest"
  /\ pc = "idle"
  /\ result = "err"
  /\ Len(log) = 1
  /\ log[1].ev = "challenge"
  /\ log[1].res = "json"

\* C29: a report with all_passed = false does not stop the attempt: the
\* payload with that report is submitted, and an accepted submission sets
\* attestation_valid_until to now + 86400 as for a passing report.
C29_VerdictDoesNotGate ==
  /\ [][(pc = "fingerprint" /\ pc' # "fingerprint") =>
          /\ pc' = "submit"
          /\ payload'.fingerprint \in
               {{[all_passed |-> b]} : b \in BOOLEAN}
          /\ log'[Len(log')] = Ev("submit", "sent", 0, 0)]_vars
  /\ [][(/\ pc = "submit"
         /\ log'[Len(log)].res = "accepted") =>
          attestation_valid_until' = now' + ATTEST_VALIDITY]_vars

\* a submission that carried a failed report was accepted and the validity
\* was extended
C29_Witness ==
  /\ call = "mine_loop"
  /\ pc = "enroll"
  /\ \E i \in DOMAIN log : log[i].ev = "fingerprint" /\ log[i].res = "failed"
  /\ \E i \in DOMAIN log : log[i].ev = "submit" /\ log[i].res = "accepted"
  /\ attestation_valid_until = now + ATTEST_VALIDITY

\* C30: attestation_valid_until never decreases.
C30_ValidityNeverDecreases ==
  [][attestation_valid_until' >= attestation_valid_until]_vars

\* the validity has been extended a second time, a full window after the
\* first
C30_Witness ==
  /\ call = "mine_loop"
  /\ pc = "sleep"
  /\ site = "epoch"
  /\ attestation_valid_until >= 2 * ATTEST_VALIDITY

\* C24: interruptible_sleep returns true when the flag was set at any time
\* before the sleep finished, and false only when the whole duration went by
\* with the flag never set: at its return, the value is the flag.
C24_SleepReportsFlag ==
  [][(call = "mine_loop" /\ pc = "sleep" /\ pc' # "sleep") =>
       (log'[Len(log)].res = "cancelled") = cancel]_vars

\* the requests of kind e that the loop sent after the flag was set
SentAfterFlag(e) ==
  {i \in DOMAIN log : i > cancelAt.len /\ log[i].ev = e}

SameIdentity(out, w) ==
  /\ out.kind = "Ok"
  /\ out.value.address = w.address
  /\ PublicKeyHex(out.value) = PublicKeyHex(w)

\* C22: a wallet restored from the private key of a wallet w, through
\* from_private_key_hex(w.private_key_hex()) or through save_plaintext and
\* from_file, has the address and the public key of w; the address is a
\* function of the key.
C22_RestoreKeepsIdentity ==
  wallet # NoWallet =>
    /\ wallet.address = DeriveAddress(VerifyingKey(wallet.signing_key))
    /\ (/\ restored.by = "from_private_key_hex"
        /\ restored.input = PrivateKeyHex(wallet)) =>
         SameIdentity(restored.out, wallet)
    /\ (/\ restored.by = "from_file"
        /\ restored.input = WalletFileJson(wallet, now)) =>
         SameIdentity(restored.out, wallet)
    /\ (/\ restored.by \in {"from_private_key_hex", "from_file"}
        /\ restored.out.kind = "Ok"
        /\ restored.out.value.signing_key = wallet.signing_key) =>
         restored.out.value.address = wallet.address

\* a wallet whose key has bytes below 16 was saved and read back from the
\* file
C22_Witness ==
  /\ wallet # NoWallet
  /\ wallet.signing_key[1] < 16
  /\ restored.by = "from_file"
  /\ restored.input = WalletFileJson(wallet, now)
  /\ restored.out.kind = "Ok"
  /\ restored.out.value.address = wallet.address

\* C23: decrypt(q) on the keystore encrypt(secret, p) made returns the
\* secret when q = p, and an error, never another plaintext, when q # p.
C23_DecryptNeedsPassword ==
  (keystore # NoKeystore /\ decrypted # NoDecrypt) =>
    IF decrypted.password = keystore.password
    THEN /\ decrypted.out.kind = "Ok"
         /\ decrypted.out.value = keystore.secret
    ELSE decrypted.out.kind = "KeystoreDecrypt"

\* decrypt was called with a password other than the one of encrypt and
\* returned an error
C23_Witness ==
  /\ keystore # NoKeystore
  /\ keystore.secret # <<>>
  /\ decrypted # NoDecrypt
  /\ decrypted.password # keystore.password
  /\ decrypted.out.kind = "KeystoreDecrypt"

\* C25: the entropy collection and the probe battery never run in place on
\* the async task: while either is running in Miner::attest or tool_attest
\* (the battery through validate_all_checks_async) it is the work of a
\* blocking-pool thread, and the pool is idle otherwise.
C25_HeavyWorkOnBlockingPool ==
  /\ pc = "entropy" => blocking = "collect_entropy"
  /\ pc = "t_entropy" => blocking = "entropy_closure"
  /\ pc = "fingerprint" => blocking = "validate_all_checks"
  /\ pc \notin {"entropy", "t_entropy", "fingerprint"} => blocking = "none"
  /\ \A i \in DOMAIN log :
       (log[i].ev \in {"entropy", "fingerprint"} /\ log[i].res = "running")
         => blocking # "none"

\* Miner::attest is suspended while the probe battery runs on the pool
C25_Witness ==
  /\ call = "attest"
  /\ pc = "fingerprint"
  /\ blocking = "validate_all_checks"
  /\ log[Len(log)] = Ev("fingerprint", "running", 0, 0)

====
